---- MODULE Spec2Model ----
(***************************************************************************)
(* Model of ccap (src/ccap.h): a command line argument parser.             *)
(*                                                                         *)
(* A std::string is a sequence of one-character strings, "" is <<>>.       *)
(* A std::optional<std::string> is a sequence of length at most one:       *)
(* nullopt is <<>> and the engaged optional holding v is <<v>>.            *)
(* Indices into raw_args_ are 0-based as in the source: raw_args_[i] of    *)
(* the source is raw_args_[i + 1] here.                                     *)
(***************************************************************************)
EXTENDS Integers, Sequences, FiniteSets, TLC

(***************************************************************************)
(* Bounds and input universes.                                             *)
(***************************************************************************)
\* largest argc handed to the constructor (program name included)
MaxArgc == 3

\* the char 0 (an unset short form, and the terminator read at size())
NUL == "NUL"

\* argv[0]
ProgName == <<"p">>

\* the command line tokens the host process may be started with
Tokens ==
  { <<>>,                                \* ""
    <<"-">>,                             \* "-"
    <<"-", "-">>,                        \* "--"
    <<"-", "-", "h", "e", "l", "p">>,    \* "--help"
    <<"-", "h">>,                        \* "-h"
    <<"-", "-", "n">>,                   \* "--n"
    <<"-", "n">>,                        \* "-n"
    <<"x">> }                            \* "x"

\* names, long forms and short forms the host registers
ArgNames   == {<<"a">>, <<"b">>}
LongForms  == {<<"n">>}
ShortForms == {"n"}

\* what an out-of-bounds read of raw_args_ may produce when it does not fault
Garbage == {<<>>, <<"?">>}

(***************************************************************************)
(* std::string helpers                                                     *)
(***************************************************************************)
\* std::string::starts_with
StartsWith(s, p) == Len(s) >= Len(p) /\ SubSeq(s, 1, Len(p)) = p

\* std::string::substr(pos), pos <= size()
Substr(s, pos) == SubSeq(s, pos + 1, Len(s))

\* std::string::operator[](pos), pos <= size(); s[size()] is the char 0
CharAt(s, pos) == IF pos < Len(s) THEN s[pos + 1] ELSE NUL

\* std::optional
nullopt == <<>>
Some(v) == <<v>>

(***************************************************************************)
(* class Argument                                                          *)
(***************************************************************************)
WithName(name) ==
  [ name_ |-> name, long_ |-> <<>>, short_ |-> NUL, value_ |-> <<>>,
    required_ |-> FALSE, expects_value_ |-> FALSE,
    is_option_ |-> TRUE, is_given_ |-> FALSE ]

GetName(a) == a.name_
GetShort(a) == a.short_
SetShort(a, s) == [a EXCEPT !.short_ = s]
GetLong(a) == a.long_
SetLong(a, l) == [a EXCEPT !.long_ = l]
SetValue(a, value) == [a EXCEPT !.value_ = value]
GetValue(a) == IF Len(a.value_) > 0 THEN Some(a.value_) ELSE nullopt
ExpectsValue(a) == [a EXCEPT !.expects_value_ = TRUE, !.is_option_ = FALSE]
IsExpectingValue(a) == a.expects_value_
Required(a) == [a EXCEPT !.required_ = TRUE]
IsRequired(a) == a.required_
IsOption(a) == a.is_option_
ArgIsGiven(a) == a.is_given_
SetGiven(a, value) == [a EXCEPT !.is_given_ = value]


(***************************************************************************)
(* class Args: state                                                       *)
(***************************************************************************)
VARIABLES
  argc,          \* the count the constructor was called with
  raw_args_,     \* std::vector<std::string>: argv without the program name
  num_args_,     \* int
  args_,         \* std::vector<Argument>, in registration order
  terminateBy_,  \* TerminationType: "Exit" or "Exception"
  pc,            \* where the host process is: "config" (constructed, being
                 \* configured), "scan" (inside Parse), "returned" (Parse
                 \* returned), "help" (ShowHelp called exit(0)), "exit"
                 \* (Terminate called exit(EXIT_FAILURE)), "thrown" (Terminate
                 \* threw out of Parse), "fault" (the process crashed)
  i,             \* the loop index of Parse
  terminated,    \* names of the arguments Terminate was called with, in
                 \* call order, during the current Parse call
  prev           \* args_ as the previous Parse call returned it, if any

vars == <<argc, raw_args_, num_args_, args_, terminateBy_, pc, i, terminated, prev>>

TerminationType == {"Exit", "Exception"}

Min(S) == CHOOSE m \in S : \A n \in S : m <= n

\* what the unchecked read raw_args_[idx] past the end may do:
\* nullopt is a crash, Some(g) is a read of the bytes g
UBOutcomes == {nullopt} \cup {Some(g) : g \in Garbage}

(***************************************************************************)
(* Args::Args(argc, argv)                                                  *)
(***************************************************************************)
CtorRawArgs(c, argv) == [k \in 1..(c - 1) |-> argv[k + 1]]

\* CtorNumArgs without the argc == 0 case
CtorNumArgsNoClamp(c) == c - 1

CtorNumArgs(c) == IF c = 0 THEN c ELSE c - 1

\* the argument vectors a process is started with: argc >= 0 entries,
\* the first is the program name
ArgvOf(c) ==
  {av \in [1..c -> Tokens \cup {ProgName}] :
     /\ c >= 1 => av[1] = ProgName
     /\ \A k \in 2..c : av[k] \in Tokens}

Init ==
  \E c \in 0..MaxArgc : \E argv \in ArgvOf(c) :
    /\ argc = c
    /\ raw_args_ = CtorRawArgs(c, argv)
    /\ num_args_ = CtorNumArgs(c)
    /\ args_ = <<>>
    /\ terminateBy_ = "Exit"
    /\ pc = "config"
    /\ i = 0
    /\ terminated = <<>>
    /\ prev = nullopt

(***************************************************************************)
(* Args::Get, Args::IsGiven                                                *)
(***************************************************************************)
Get(arg_name) ==
  LET S == {k \in DOMAIN args_ : GetName(args_[k]) = arg_name}
  IN  IF S = {} THEN nullopt ELSE GetValue(args_[Min(S)])

IsGiven(arg_name) ==
  LET S == {k \in DOMAIN args_ : GetName(args_[k]) = arg_name}
  IN  IF S = {} THEN FALSE
      ELSE IsOption(args_[Min(S)]) /\ ArgIsGiven(args_[Min(S)])

(***************************************************************************)
(* Args::ShowHelp, Args::Terminate: where control is after the call        *)
(***************************************************************************)
\* ShowHelp that prints and returns
ShowHelpReturns == "run"

\* exit(0): the call does not return
ShowHelp == "help"

\* Terminate that reports and returns
TerminateReturns(type) == "run"

\* exit(EXIT_FAILURE) or throw: the call does not return
Terminate(type) == IF type = "Exit" THEN "exit" ELSE "thrown"

(***************************************************************************)
(* Args::ReadLongArg, Args::ReadShortArg                                   *)
(* Both yield [args |-> the registered arguments afterwards,               *)
(*             out  |-> "run" when the call returns, else the pc reached]. *)
(***************************************************************************)
\* VectorAt reading the element before idx
VectorAtBefore(raw, idx, ub) == IF idx < Len(raw) THEN Some(raw[idx]) ELSE ub

\* raw_args_[idx], unchecked: past the end it is undefined behaviour
VectorAt(raw, idx, ub) == IF idx < Len(raw) THEN Some(raw[idx + 1]) ELSE ub

HelpName == <<"h", "e", "l", "p">>

\* LongLoop that stops after the first argument with the long form
LongLoopFirstOnly(args, k, name, raw, idx, ub) ==
  LET S == {m \in DOMAIN args : m >= k /\ GetLong(args[m]) = name}
  IN  IF S = {} THEN [args |-> args, out |-> "run"]
      ELSE LET f  == Min(S)
               rd == IF IsExpectingValue(args[f]) THEN VectorAt(raw, idx + 1, ub)
                     ELSE Some(args[f].value_)
           IN  IF rd = nullopt THEN [args |-> args, out |-> "fault"]
               ELSE LET a1 == IF IsExpectingValue(args[f])
                              THEN SetValue(args[f], rd[1]) ELSE args[f]
                        a2 == IF IsOption(a1) THEN SetGiven(a1, TRUE) ELSE a1
                    IN  [args |-> [args EXCEPT ![f] = a2], out |-> "run"]

RECURSIVE LongLoop(_, _, _, _, _, _)
LongLoop(args, k, name, raw, idx, ub) ==
  IF k > Len(args) THEN [args |-> args, out |-> "run"]
  ELSE IF GetLong(args[k]) = name THEN
    LET rd == IF IsExpectingValue(args[k]) THEN VectorAt(raw, idx + 1, ub)
              ELSE Some(args[k].value_)
    IN  IF rd = nullopt THEN [args |-> args, out |-> "fault"]
        ELSE LET a1 == IF IsExpectingValue(args[k])
                       THEN SetValue(args[k], rd[1]) ELSE args[k]
                 a2 == IF IsOption(a1) THEN SetGiven(a1, TRUE) ELSE a1
             IN  LongLoop([args EXCEPT ![k] = a2], k + 1, name, raw, idx, ub)
  ELSE LongLoop(args, k + 1, name, raw, idx, ub)

\* ReadLongArg without the check for an empty name
ReadLongArgNoEmptyCheck(args, raw, idx, ub) ==
  LET name == Substr(raw[idx + 1], 2)
  IN  IF name = HelpName /\ ShowHelp # "run"
      THEN [args |-> args, out |-> ShowHelp]
      ELSE LongLoop(args, 1, name, raw, idx, ub)

ReadLongArg(args, raw, idx, ub) ==
  LET name == Substr(raw[idx + 1], 2)
  IN  IF Len(name) = 0 THEN [args |-> args, out |-> "run"]
      ELSE IF name = HelpName /\ ShowHelp # "run"
           THEN [args |-> args, out |-> ShowHelp]
      ELSE LongLoop(args, 1, name, raw, idx, ub)

\* ShortLoop that skips an argument whose value is missing and goes on
\* with the next argument instead of returning
ShortLoopSkip(args, k, shortName, raw, idx) ==
  [args |-> [m \in DOMAIN args |->
               IF m >= k /\ GetShort(args[m]) = shortName
               THEN IF IsExpectingValue(args[m])
                    THEN IF Len(raw) <= idx + 1 THEN args[m]
                         ELSE SetValue(args[m], raw[idx + 2])
                    ELSE IF IsOption(args[m]) THEN SetGiven(args[m], TRUE)
                         ELSE args[m]
               ELSE args[m]],
   out |-> "run"]

RECURSIVE ShortLoop(_, _, _, _, _)
ShortLoop(args, k, shortName, raw, idx) ==
  IF k > Len(args) THEN [args |-> args, out |-> "run"]
  ELSE IF GetShort(args[k]) = shortName THEN
    IF IsExpectingValue(args[k]) /\ Len(raw) <= idx + 1
    THEN [args |-> args, out |-> "run"]
    ELSE LET a1 == IF IsExpectingValue(args[k])
                   THEN SetValue(args[k], raw[idx + 2]) ELSE args[k]
             a2 == IF IsOption(a1) THEN SetGiven(a1, TRUE) ELSE a1
         IN  ShortLoop([args EXCEPT ![k] = a2], k + 1, shortName, raw, idx)
  ELSE ShortLoop(args, k + 1, shortName, raw, idx)

ReadShortArg(args, raw, idx) ==
  LET shortName == CharAt(raw[idx + 1], 1)
  IN  IF shortName = NUL THEN [args |-> args, out |-> "run"]
      ELSE IF shortName = "h" /\ ShowHelp # "run"
           THEN [args |-> args, out |-> ShowHelp]
      ELSE ShortLoop(args, 1, shortName, raw, idx)

(***************************************************************************)
(* the required-argument loop of Args::Parse                               *)
(* [calls |-> the names Terminate was called with, out |-> the pc reached] *)
(***************************************************************************)
RECURSIVE ValidateLoop(_, _, _, _)
ValidateLoop(args, k, type, calls) ==
  IF k > Len(args) THEN [calls |-> calls, out |-> "returned"]
  ELSE IF IsRequired(args[k]) /\ GetValue(args[k]) = nullopt THEN
    IF Terminate(type) # "run"
    THEN [calls |-> Append(calls, GetName(args[k])), out |-> Terminate(type)]
    ELSE ValidateLoop(args, k + 1, type, Append(calls, GetName(args[k])))
  ELSE ValidateLoop(args, k + 1, type, calls)

(***************************************************************************)
(* Operations                                                              *)
(***************************************************************************)
\* Argument::WithName(name) followed by the chained setters the host picks
Build(name, l, s, e, r) ==
  LET a0 == WithName(name)
      a1 == IF l # <<>> THEN SetLong(a0, l) ELSE a0
      a2 == IF s # NUL THEN SetShort(a1, s) ELSE a1
      a3 == IF e THEN ExpectsValue(a2) ELSE a2
  IN  IF r THEN Required(a3) ELSE a3

\* Args::Arg(item); the host gives every argument a name of its own
Arg ==
  /\ pc = "config"
  /\ \E name \in ArgNames \ {GetName(args_[k]) : k \in DOMAIN args_} :
     \E l \in LongForms \cup {<<>>} : \E s \in ShortForms \cup {NUL} :
     \E e \in BOOLEAN : \E r \in BOOLEAN :
       args_' = Append(args_, Build(name, l, s, e, r))
  /\ UNCHANGED <<argc, raw_args_, num_args_, terminateBy_, pc, i, terminated, prev>>

\* Args::SetTerminationType(type)
SetTerminationType ==
  /\ pc = "config"
  /\ \E type \in TerminationType : terminateBy_' = type
  /\ UNCHANGED <<argc, raw_args_, num_args_, args_, pc, i, terminated, prev>>

\* Args::Parse is entered: int i = 0
ParseBegin ==
  /\ pc \in {"config", "returned"}
  /\ pc' = "scan"
  /\ i' = 0
  /\ terminated' = <<>>
  /\ prev' = IF pc = "returned" THEN Some(args_) ELSE nullopt
  /\ UNCHANGED <<argc, raw_args_, num_args_, args_, terminateBy_>>

\* AfterRead that steps over a token taken as a value
AfterReadSkipValue(r) ==
  /\ args_' = r.args
  /\ pc' = IF r.out = "run" THEN "scan" ELSE r.out
  /\ i' = IF r.out # "run" THEN i
          ELSE IF \E k \in DOMAIN args_ : r.args[k].value_ # args_[k].value_
               THEN i + 2 ELSE i + 1
  /\ UNCHANGED <<argc, raw_args_, num_args_, terminateBy_, terminated, prev>>

\* what one call of ReadLongArg/ReadShortArg leaves behind, then ++i
AfterRead(r) ==
  /\ args_' = r.args
  /\ pc' = IF r.out = "run" THEN "scan" ELSE r.out
  /\ i' = IF r.out = "run" THEN i + 1 ELSE i
  /\ UNCHANGED <<argc, raw_args_, num_args_, terminateBy_, terminated, prev>>

\* one iteration of the scan loop of Args::Parse, on a "--" token
ScanLong ==
  /\ pc = "scan" /\ i < num_args_
  /\ StartsWith(raw_args_[i + 1], <<"-", "-">>)
  /\ \E ub \in UBOutcomes : AfterRead(ReadLongArg(args_, raw_args_, i, ub))

\* one iteration, on a "-" token
ScanShort ==
  /\ pc = "scan" /\ i < num_args_
  /\ ~StartsWith(raw_args_[i + 1], <<"-", "-">>)
  /\ StartsWith(raw_args_[i + 1], <<"-">>)
  /\ AfterRead(ReadShortArg(args_, raw_args_, i))

\* one iteration, on any other token
ScanOther ==
  /\ pc = "scan" /\ i < num_args_
  /\ ~StartsWith(raw_args_[i + 1], <<"-", "-">>)
  /\ ~StartsWith(raw_args_[i + 1], <<"-">>)
  /\ i' = i + 1
  /\ UNCHANGED <<argc, raw_args_, num_args_, args_, terminateBy_, pc, terminated, prev>>

\* the scan loop is over: the required-argument loop, then return *this
Validate ==
  /\ pc = "scan" /\ ~(i < num_args_)
  /\ LET r == ValidateLoop(args_, 1, terminateBy_, terminated)
     IN  /\ terminated' = r.calls
         /\ pc' = r.out
  /\ UNCHANGED <<argc, raw_args_, num_args_, args_, terminateBy_, i, prev>>

Next ==
  \/ Arg
  \/ SetTerminationType
  \/ ParseBegin
  \/ ScanLong
  \/ ScanShort
  \/ ScanOther
  \/ Validate

Spec == Init /\ [][Next]_vars

(***************************************************************************)
(* Vocabulary of the properties                                            *)
(***************************************************************************)
\* the token "--L" of an argument's long form, "-s" of its short form
LongToken(a) == <<"-", "-">> \o GetLong(a)
ShortToken(a) == <<"-", GetShort(a)>>

\* token t is the long-form or the short-form token of argument a
TokMatches(t, a) ==
  \/ GetLong(a) # <<>> /\ t = LongToken(a)
  \/ GetShort(a) # NUL /\ t = ShortToken(a)

\* the positions (1-based) of the raw tokens that match argument a
MatchedAt(a) == {j \in DOMAIN raw_args_ : TokMatches(raw_args_[j], a)}

IsHelpToken(t) == t = <<"-", "-">> \o HelpName \/ t = <<"-", "h">>

HasHelpToken == \E j \in DOMAIN raw_args_ : IsHelpToken(raw_args_[j])

\* Parse ran its required-argument loop
Validated == pc \in {"returned", "exit", "thrown"}

\* registered arguments that are Required() and have no value
Missing == {k \in DOMAIN args_ : IsRequired(args_[k]) /\ GetValue(args_[k]) = nullopt}

C3_HelpBypassesValidation ==
  HasHelpToken =>
    /\ pc \notin {"returned", "exit", "thrown", "fault"}
    /\ terminated = <<>>
    /\ \A j \in DOMAIN raw_args_ :
         (pc = "scan" /\ j <= i) => ~IsHelpToken(raw_args_[j])

\* help was shown although a required argument has no value, the help token
\* not being the first token
C3_Witness ==
  /\ pc = "help" /\ i > 0
  /\ IsHelpToken(raw_args_[i + 1])
  /\ Missing # {}

CallsFor(n) == Cardinality({c \in DOMAIN terminated : terminated[c] = n})

\* C2 as claimed: once Parse is over, every Required() argument that no token
\* matches has had exactly one Terminate call naming it.
C2_Claim ==
  pc \in {"returned", "exit", "thrown", "help", "fault"} =>
    \A k \in DOMAIN args_ :
      (IsRequired(args_[k]) /\ MatchedAt(args_[k]) = {}) =>
        CallsFor(GetName(args_[k])) = 1

\* C2 amended: Parse makes at most one Terminate call. When the scan
\* completes, every Required() argument that no token matches is without a
\* value, and if any Required() argument is without a value Parse makes
\* exactly one Terminate call, for the first such argument in registration
\* order, and ends by the termination policy; otherwise it makes none.
C2_FirstMissingTerminates ==
  /\ Len(terminated) <= 1
  /\ Validated =>
       /\ \A k \in DOMAIN args_ :
            (IsRequired(args_[k]) /\ MatchedAt(args_[k]) = {}) => k \in Missing
       /\ IF Missing = {}
          THEN terminated = <<>> /\ pc = "returned"
          ELSE /\ terminated = <<GetName(args_[Min(Missing)])>>
               /\ pc = IF terminateBy_ = "Exit" THEN "exit" ELSE "thrown"

\* two required arguments without a value, one Terminate call, by exception
C2_Witness ==
  /\ pc = "thrown"
  /\ Cardinality(Missing) = 2
  /\ Len(terminated) = 1
  /\ \E k \in Missing : MatchedAt(args_[k]) = {}

(***************************************************************************)
(* C1                                                                      *)
(***************************************************************************)
Max(S) == CHOOSE m \in S : \A n \in S : m >= n

Sharing(L) == {k \in DOMAIN args_ : GetLong(args_[k]) = L}

\* this step scans the token "--L" and ReadLongArg returns
C5Step(L) ==
  /\ pc = "scan" /\ i < num_args_
  /\ raw_args_[i + 1] = <<"-", "-">> \o L
  /\ pc' = "scan"

LastIsLongExpecting ==
  /\ Len(raw_args_) >= 1
  /\ \E k \in DOMAIN args_ :
       /\ GetLong(args_[k]) # <<>>
       /\ IsExpectingValue(args_[k])
       /\ raw_args_[Len(raw_args_)] = LongToken(args_[k])

\* C6 as claimed: when the last raw token is the long-form token of an
\* argument that expects a value, Parse never completes its scan: it does
\* not reach the required-argument loop and does not return.
C6_Claim ==
  LastIsLongExpecting =>
    /\ ~(pc = "scan" /\ i >= num_args_)
    /\ ~Validated

(***************************************************************************)
(* C7                                                                      *)
(***************************************************************************)
\* the scan is at the last raw token, which is "-s", and an argument with
\* short form s expects a value
C7Case(s) ==
  /\ pc = "scan" /\ i >= 0 /\ i = num_args_ - 1
  /\ raw_args_[i + 1] = <<"-", s>>
  /\ \E k \in DOMAIN args_ : GetShort(args_[k]) = s /\ IsExpectingValue(args_[k])

\* C7 as claimed: processing that token changes no registered argument, does
\* not fault, and leaves Parse at its required-argument loop.
C7_Claim ==
  [][ \A s \in ShortForms :
        C7Case(s) => (args_' = args_ /\ pc' = "scan" /\ i' = i + 1) ]_vars

\* C7 amended: processing that token changes no value, and changes neither
\* the first argument with short form s that expects a value nor any argument
\* registered after it; an option with short form s registered before it is
\* marked given; there is no fault and Parse is left at its
\* required-argument loop.
C7_AbortsAtFirstExpecting ==
  [][ \A s \in ShortForms :
        C7Case(s) =>
          LET F == Min({k \in DOMAIN args_ :
                          GetShort(args_[k]) = s /\ IsExpectingValue(args_[k])})
          IN  /\ pc' = "scan" /\ i' = i + 1
              /\ DOMAIN args_' = DOMAIN args_
              /\ \A k \in DOMAIN args_ :
                   IF k < F /\ GetShort(args_[k]) = s
                   THEN args_'[k] = SetGiven(args_[k], TRUE)
                   ELSE args_'[k] = args_[k] ]_vars

\* the only raw token "-s" was scanned: the option registered first is marked
\* given, the argument expecting a value registered after it has none
C7_Witness ==
  /\ pc = "scan" /\ i = 1 /\ num_args_ = 1
  /\ \E k1 \in DOMAIN args_ : \E k2 \in DOMAIN args_ :
       /\ k1 < k2
       /\ GetShort(args_[k1]) # NUL
       /\ GetShort(args_[k2]) = GetShort(args_[k1])
       /\ raw_args_[1] = ShortToken(args_[k1])
       /\ IsOption(args_[k1]) /\ ArgIsGiven(args_[k1])
       /\ IsExpectingValue(args_[k2]) /\ GetValue(args_[k2]) = nullopt

(***************************************************************************)
(* C8                                                                      *)
(***************************************************************************)
\* raw token j (1-based) was taken as the value of an argument matched by
\* the token before it
Consumed(j) ==
  /\ j >= 2 /\ j <= Len(raw_args_)
  /\ \E k \in DOMAIN args_ :
       IsExpectingValue(args_[k]) /\ TokMatches(raw_args_[j - 1], args_[k])

\* the scan of raw token j, a last short-form token, stops before reaching
\* argument m: an argument expecting a value is registered before m under
\* the same short form
StopsBefore(j, m) ==
  /\ j = Len(raw_args_)
  /\ GetShort(args_[m]) # NUL /\ raw_args_[j] = ShortToken(args_[m])
  /\ \E k \in DOMAIN args_ :
       k < m /\ GetShort(args_[k]) = GetShort(args_[m]) /\ IsExpectingValue(args_[k])

C8_Advance ==
  (pc = "scan" /\ i < num_args_) =>
     \/ pc' = "scan" /\ i' = i + 1
     \/ pc' \in {"help", "fault"} /\ i' = i

C8_Reexamined ==
  /\ pc \in {"scan", "returned", "exit", "thrown"} =>
       \A j \in DOMAIN raw_args_ :
         (Consumed(j) /\ j <= i) =>
           /\ ~IsHelpToken(raw_args_[j])
           /\ \A m \in DOMAIN args_ :
                ( /\ IsOption(args_[m])
                  /\ TokMatches(raw_args_[j], args_[m])
                  /\ ~StopsBefore(j, m) ) =>
                  ArgIsGiven(args_[m])
           /\ \A k \in DOMAIN args_ :
                (IsExpectingValue(args_[k]) /\ MatchedAt(args_[k]) = {j - 1}) =>
                  args_[k].value_ = raw_args_[j]
  /\ (pc = "help" /\ Consumed(i + 1)) =>
       \A k \in DOMAIN args_ :
         (IsExpectingValue(args_[k]) /\ MatchedAt(args_[k]) = {i}) =>
           args_[k].value_ = raw_args_[i + 1]

\* C8: every scan step that does not end the process advances the index by
\* exactly 1; a token taken as the value of the argument before it is scanned
\* as a token of its own: it is that argument's value and also marks the
\* options it matches given (up to where a last short-form token stops for
\* want of a value), and a help token among them ends in ShowHelp.
C8_ValueTokenRescanned == [][C8_Advance]_vars /\ []C8_Reexamined

\* "--L -s": the second token became the value of the argument with long
\* form L and marked the option with short form s given
C8_Witness ==
  /\ pc = "scan" /\ i = 2 /\ Consumed(2)
  /\ \E k \in DOMAIN args_ : \E m \in DOMAIN args_ :
       /\ IsExpectingValue(args_[k]) /\ GetLong(args_[k]) # <<>>
       /\ raw_args_[1] = LongToken(args_[k])
       /\ args_[k].value_ = raw_args_[2]
       /\ IsOption(args_[m]) /\ GetShort(args_[m]) # NUL
       /\ raw_args_[2] = ShortToken(args_[m])
       /\ ArgIsGiven(args_[m])

(***************************************************************************)
(* C10                                                                     *)
(***************************************************************************)
\* C10 as claimed: a Parse call that follows a Parse call that returned
\* neither shows help, terminates nor faults, and returns with every
\* registered argument as the first call left it.
C10_Claim ==
  prev # nullopt =>
    /\ pc \in {"scan", "returned"}
    /\ pc = "returned" => args_ = prev[1]

====
